---------------------------- MODULE Spec2Model ----------------------------
(***************************************************************************)
(* A model of the monkey-rs front end: the byte-level Lexer of             *)
(* src/src/lexer.rs and the let-statement Parser of src/src/parser.rs.     *)
(*                                                                         *)
(* Bytes are u8 values (b'=' is 61, the end sentinel is 0).  The input is  *)
(* a sequence of bytes, indexed from 0 in the code and from 1 here, so the *)
(* code's input.as_bytes()[i] is input[i + 1].                             *)
(*                                                                         *)
(* Three specifications share the variables:                               *)
(*   LexSpec  a driver that calls Lexer::next again and again, as the      *)
(*            read loop of src/src/main.rs does (and on, past Eof);        *)
(*   Spec     Lexer::new, Parser::new and Parser::parse_program, stepped   *)
(*            one parse_statement / next_token at a time;                  *)
(*   ClientSpec  Lexer::new, Parser::new and then the parser's public      *)
(*            methods called in any order, one whole call at a time.       *)
(***************************************************************************)
EXTENDS Integers, Sequences, FiniteSets, TLC

VARIABLES
    input,          \* Lexer.input: the source text, a sequence of bytes
    src,            \* the pieces the input was written from (not program state)
    position,       \* Lexer.position
    read_position,  \* Lexer.read_position
    ch,             \* Lexer.ch
    curr_token,     \* Parser.curr_token
    peek_token,     \* Parser.peek_token
    errors,         \* Parser.errors
    program,        \* parse_program's local `program`
    pc,             \* where the driver stands
    calls,          \* LexSpec: number of calls of Lexer::next made so far
    out,            \* LexSpec: the tokens those calls returned, in order
    pre,            \* the lexer fields as they were before the last step
    last,           \* what the last call of a parser method found and did
    recovering,     \* Spec: a let statement failed and no semicolon was current since
    dispatched      \* Spec: read_position at each dispatch to parse_let_statement

vars == <<input, src, position, read_position, ch, curr_token, peek_token,
          errors, program, pc, calls, out, pre, last, recovering,
          dispatched>>

lexvars == <<position, read_position, ch>>
parservars == <<curr_token, peek_token, errors, program>>

-----------------------------------------------------------------------------
(* Bounds of the model.                                                    *)

\* LexSpec: the input is at most this many words of LexWords
MaxLexWords == 3
\* LexSpec: next() is called at most this many times beyond the input's length
\* (read_position is a usize and grows by one with every call: the bound
\* keeps it far below 2^64, where `read_position += 1` would overflow)
MaxExtraCalls == 3
\* Spec: the input is at most this many pieces of Chunks
MaxChunks == 3
\* ClientSpec: the input is at most this many pieces of Chunks
MaxClientChunks == 2
\* ClientSpec: no method that can push an error is called once the list
\* holds this many
MaxClientErrors == 2
\* ClientSpec: no method that pulls tokens is called once read_position is
\* this far beyond the input's length
MaxClientExtra == 1

-----------------------------------------------------------------------------
(* Tokens (crate::token::Token as lexer.rs and parser.rs use it).  Every   *)
(* token is a record of the variant's name and its payload: the text of an *)
(* Ident, the value of an Int (see ParseI64), <<>> for the others.         *)

Tok(t) == [type |-> t, lit |-> <<>>]
TokIdent(text) == [type |-> "Ident", lit |-> text]
TokInt(val) == [type |-> "Int", lit |-> val]

Eof == Tok("Eof")

-----------------------------------------------------------------------------
(* The lexer.  A lexer value is the record of the three cursor fields; the *)
(* input never changes after Lexer::new.                                   *)

Lexer(p, r, c) == [position |-> p, read_position |-> r, ch |-> c]

(* The(S) is the element of a one-element set.  The({e(x) : x \in {v}}) is  *)
(* e with x standing for the value of v, which is worked out once: the     *)
(* definitions below use it where the code names an intermediate value.    *)
The(S) == CHOOSE x \in S : TRUE

\* Lexer::read_char marking the end of the input with 0xFF, not with 0
ReadCharOtherSentinel(l) ==
    The({ [ch |-> IF rp >= Len(input) THEN 255 ELSE input[rp + 1],
           position |-> rp,
           read_position |-> rp + 1] : rp \in {l.read_position} })

\* Lexer::read_char returning early, the cursor untouched, at the end of input
ReadCharStuckAtEnd(l) ==
    The({ IF rp >= Len(input)
            THEN [l EXCEPT !.ch = 0]
            ELSE [ch |-> input[rp + 1],
                  position |-> rp,
                  read_position |-> rp + 1] : rp \in {l.read_position} })

\* Lexer::read_char adding two to read_position
ReadCharSkipsByte(l) ==
    The({ [ch |-> IF rp >= Len(input) THEN 0 ELSE input[rp + 1],
           position |-> rp,
           read_position |-> rp + 2] : rp \in {l.read_position} })

\* Lexer::read_char
ReadChar(l) ==
    The({ [ch |-> IF rp >= Len(input) THEN 0 ELSE input[rp + 1],
           position |-> rp,
           read_position |-> rp + 1] : rp \in {l.read_position} })

\* Lexer::peek_char reading the current byte, not the one after it
PeekCharCurrent(l) == l.ch

\* Lexer::peek_char
PeekChar(l) ==
    IF l.read_position >= Len(input) THEN 0 ELSE input[l.read_position + 1]

\* Lexer::new
LexerNew == ReadChar(Lexer(0, 0, 0))

\* b' ' | b'\n' | b'\t' | b'\r'
IsWhitespace(c) == c \in {32, 10, 9, 13}
\* the letter pattern with the upper-case range starting one byte early
IsLetterFromAt(c) == (97 <= c /\ c <= 122) \/ (64 <= c /\ c <= 90) \/ c = 95

\* b'a'..=b'z' | b'A'..=b'Z' | b'_'
IsLetter(c) == (97 <= c /\ c <= 122) \/ (65 <= c /\ c <= 90) \/ c = 95
\* b'0'..=b'9'
IsDigit(c) == 48 <= c /\ c <= 57

RECURSIVE SkipWhitespace(_)
\* Lexer::skip_whitespace
SkipWhitespace(l) ==
    IF IsWhitespace(l.ch) THEN SkipWhitespace(ReadChar(l)) ELSE l

RECURSIVE SkipLettersAndDigits(_)
\* the loop of read_identifier taking digits into the run as well
SkipLettersAndDigits(l) ==
    IF IsLetter(l.ch) \/ IsDigit(l.ch)
      THEN SkipLettersAndDigits(ReadChar(l))
      ELSE l

RECURSIVE SkipLetters(_)
\* the while loop of Lexer::read_identifier
SkipLetters(l) ==
    IF IsLetter(l.ch) THEN SkipLetters(ReadChar(l)) ELSE l

RECURSIVE SkipDigits(_)
\* the while loop of Lexer::read_number
SkipDigits(l) ==
    IF IsDigit(l.ch) THEN SkipDigits(ReadChar(l)) ELSE l

\* &self.input[start..self.position]
Slice(start, end) == SubSeq(input, start + 1, end)

\* the keyword table of Lexer::read_identifier
Keyword(literal) ==
    CASE literal = <<102, 110>> -> Tok("Func")                         \* "fn"
      [] literal = <<108, 101, 116>> -> Tok("Let")                     \* "let"
      [] literal = <<105, 102>> -> Tok("If")                           \* "if"
      [] literal = <<101, 108, 115, 101>> -> Tok("Else")               \* "else"
      [] literal = <<116, 114, 117, 101>> -> Tok("True")               \* "true"
      [] literal = <<102, 97, 108, 115, 101>> -> Tok("False")          \* "false"
      [] literal = <<114, 101, 116, 117, 114, 110>> -> Tok("Return")   \* "return"
      [] OTHER -> TokIdent(literal)

\* what a call of next() hands back: the lexer after it, the token, and
\* whether the call returned at all (ok = FALSE: the call panicked)
Returned(l, t) == [lexer |-> l, tok |-> t, ok |-> TRUE]
Panicked(l) == [lexer |-> l, tok |-> Tok("Illegal"), ok |-> FALSE]

\* Lexer::read_identifier
ReadIdentifier(l) ==
    LET start == l.position
    IN  The({ Returned(l2, Keyword(Slice(start, l2.position)))
              : l2 \in {SkipLetters(l)} })

(* str::parse::<i64> on a run of decimal digits.  An i64 does not fit a    *)
(* TLC integer, so a value is kept as its decimal digits without leading   *)
(* zeros (<<0>> for zero), which names the number uniquely; the parse      *)
(* fails (PosOverflow) exactly when the number is above i64::MAX =         *)
(* 9223372036854775807.                                                    *)
I64MaxDigits == <<9, 2, 2, 3, 3, 7, 2, 0, 3, 6, 8, 5, 4, 7, 7, 5, 8, 0, 7>>

RECURSIVE StripZeros(_)
StripZeros(ds) ==
    IF Len(ds) > 1 /\ ds[1] = 0 THEN StripZeros(Tail(ds)) ELSE ds

RECURSIVE DigitsLeq(_, _)
\* a <= b for two digit sequences of the same length
DigitsLeq(a, b) ==
    IF a = <<>> THEN TRUE
    ELSE IF a[1] /= b[1] THEN a[1] < b[1]
    ELSE DigitsLeq(Tail(a), Tail(b))

FitsI64(ds) ==
    \/ Len(ds) < Len(I64MaxDigits)
    \/ Len(ds) = Len(I64MaxDigits) /\ DigitsLeq(ds, I64MaxDigits)

ParseI64(literal) ==
    The({ [ok |-> FitsI64(ds), val |-> ds]
          : ds \in {StripZeros([i \in 1..Len(literal) |-> literal[i] - 48])} })

\* Lexer::read_number; parse().unwrap() panics when the parse fails
ReadNumber(l) ==
    LET start == l.position
    IN  The({ The({ IF n.ok THEN Returned(l2, TokInt(n.val)) ELSE Panicked(l2)
                    : n \in {ParseI64(Slice(start, l2.position))} })
              : l2 \in {SkipDigits(l)} })

\* Lexer::next
LexNext(l0) ==
    The({
    LET one(t) == Returned(ReadChar(l), Tok(t))
        two(t) == Returned(ReadChar(ReadChar(l)), Tok(t))
    IN  CASE l.ch = 61 -> IF PeekChar(l) = 61 THEN two("Eq") ELSE one("Assign")
          [] l.ch = 59 -> one("Semicolon")
          [] l.ch = 40 -> one("Lparen")
          [] l.ch = 41 -> one("Rparen")
          [] l.ch = 44 -> one("Comma")
          [] l.ch = 43 -> one("Plus")
          [] l.ch = 45 -> one("Minus")
          [] l.ch = 47 -> one("Slash")
          [] l.ch = 42 -> one("Asterisk")
          [] l.ch = 60 -> one("Lt")
          [] l.ch = 62 -> one("Gt")
          [] l.ch = 33 -> IF PeekChar(l) = 61 THEN two("NotEq") ELSE one("Bang")
          [] l.ch = 123 -> one("Lbrace")
          [] l.ch = 125 -> one("Rbrace")
          [] IsLetter(l.ch) -> ReadIdentifier(l)
          [] IsDigit(l.ch) -> ReadNumber(l)
          [] l.ch = 0 -> one("Eof")
          [] OTHER -> one("Illegal")
    : l \in {SkipWhitespace(l0)} })

-----------------------------------------------------------------------------
(* Inputs.                                                                 *)

RECURSIVE Concat(_)
Concat(ss) == IF ss = <<>> THEN <<>> ELSE Head(ss) \o Concat(Tail(ss))

SeqsUpTo(S, n) == UNION {[1..k -> S] : k \in 0..n}

\* LexSpec writes its input from these byte strings
LexWords ==
    { <<0>>,                    \* a NUL character
      <<32>>,                   \* " "
      <<61>>,                   \* "="
      <<33>>,                   \* "!"
      <<59>>,                   \* ";"
      <<120>>,                  \* "x"
      <<108, 101, 116>>,        \* "let"
      <<48>>,                   \* "0"
      <<55>>,                   \* "7"
      <<56>>,                   \* "8"
      <<64>>,                   \* "@", a byte no rule of next() names
      <<195, 169>>,             \* U+00E9, two bytes of UTF-8
      <<57, 50, 50, 51, 51, 55, 50, 48, 51, 54, 56, 53, 52, 55, 55, 53,
        56, 48>>,               \* "922337203685477580", 18 digits
      <<43>>,                   \* "+"
      <<40>>,                   \* "("
      <<95>>,                   \* "_"
      <<61, 43, 40, 41, 123, 125, 44, 59>>,       \* "=+(){},;"
      \* " fn if else true false return "
      <<32, 102, 110, 32, 105, 102, 32, 101, 108, 115, 101, 32, 116, 114,
        117, 101, 32, 102, 97, 108, 115, 101, 32, 114, 101, 116, 117, 114,
        110, 32>>
    }

-----------------------------------------------------------------------------
(* The AST (src/src/ast.rs).  Option<T> is a sequence of no or one T.      *)

None == <<>>
Some(x) == <<x>>

Ident(text) == [ident |-> text]
ExprLiteral(val) == [expr |-> "Literal", lit |-> "Int", val |-> val]
ExprIdent(text) == [expr |-> "Ident", val |-> Ident(text)]
Let(name, expr) == [stmt |-> "Let", name |-> name, value |-> expr]

-----------------------------------------------------------------------------
(* The parser.  A parser value is the record of the struct's fields (the   *)
(* lexer among them) and `aborted`: a call of lexer.next() panicked under  *)
(* it and the process is unwinding, so nothing more of it is observed.     *)

\* ParseError::new; msg is format!("expected next token to be {:?}, got
\* {:?} instead", ..), kept as the two tokens it prints
ParseError(kind, expected, got) ==
    [kind |-> kind, msg |-> [expected |-> expected, got |-> got]]

\* Parser::next_token that puts the new token in both places of the window
NextTokenNoShift(p0) ==
    The({ IF p.aborted THEN p
          ELSE The({ IF r.ok
                       THEN [p EXCEPT !.lexer = r.lexer,
                               !.curr_token = r.tok,
                               !.peek_token = r.tok]
                       ELSE [p EXCEPT !.aborted = TRUE]
                     : r \in {LexNext(p.lexer)} })
          : p \in {p0} })

\* Parser::next_token
NextToken(p0) ==
    The({ IF p.aborted THEN p
          ELSE The({ IF r.ok
                       THEN [p EXCEPT !.lexer = r.lexer,
                               !.curr_token = p.peek_token,
                               !.peek_token = r.tok]
                       ELSE [p EXCEPT !.aborted = TRUE]
                     : r \in {LexNext(p.lexer)} })
          : p \in {p0} })

\* the struct literal of Parser::new
ParserFields(l) ==
    [lexer |-> l, curr_token |-> Eof, peek_token |-> Eof, errors |-> <<>>,
     aborted |-> FALSE]

\* Parser::new
ParserNew(l) == NextToken(NextToken(ParserFields(l)))

\* Parser::curr_token_is
CurrTokenIs(p, tok) == p.curr_token = tok

\* Parser::peek_token_is that never sees a semicolon
PeekTokenIsNoSemicolon(p, tok) ==
    tok /= Tok("Semicolon") /\ p.peek_token = tok

\* Parser::peek_token_is
PeekTokenIs(p, tok) == p.peek_token = tok

\* Parser::error_next_token that pushes nothing
ErrorNextTokenDropped(p, tok) == p

\* Parser::error_next_token that starts the list afresh
ErrorNextTokenReplace(p, tok) ==
    [p EXCEPT !.errors = <<ParseError("UnexpectedToken", tok, p.peek_token)>>]

\* Parser::error_next_token that pushes its error twice
ErrorNextTokenTwice(p, tok) ==
    [p EXCEPT !.errors =
        @ \o <<ParseError("UnexpectedToken", tok, p.peek_token),
               ParseError("UnexpectedToken", tok, p.peek_token)>>]

\* Parser::error_next_token
ErrorNextToken(p, tok) ==
    [p EXCEPT !.errors =
        Append(@, ParseError("UnexpectedToken", tok, p.peek_token))]

\* Parser::expect_peek_token that reports the match and forgets to advance
ExpectPeekTokenNoAdvance(p, tok) ==
    IF PeekTokenIs(p, tok)
      THEN [p |-> p, ret |-> TRUE]
      ELSE [p |-> ErrorNextToken(p, tok), ret |-> FALSE]

\* Parser::expect_peek_token that steps over the token it rejects
ExpectPeekTokenSkipsMismatch(p, tok) ==
    IF PeekTokenIs(p, tok)
      THEN [p |-> NextToken(p), ret |-> TRUE]
      ELSE [p |-> NextToken(ErrorNextToken(p, tok)), ret |-> FALSE]

\* Parser::expect_peek_token that takes whatever token comes
ExpectPeekTokenUnchecked(p, tok) == [p |-> NextToken(p), ret |-> TRUE]

\* Parser::expect_peek_token
ExpectPeekToken(p, tok) ==
    IF PeekTokenIs(p, tok)
      THEN [p |-> NextToken(p), ret |-> TRUE]
      ELSE [p |-> ErrorNextToken(p, tok), ret |-> FALSE]

\* Parser::parse_ident
ParseIdent(p) ==
    IF p.curr_token.type = "Ident" THEN Some(Ident(p.curr_token.lit)) ELSE None

\* Parser::parse_ident_expression
ParseIdentExpression(p) ==
    LET ident == ParseIdent(p)
    IN  IF ident /= None THEN Some([expr |-> "Ident", val |-> ident[1]]) ELSE None

\* Parser::parse_int
ParseInt(p) ==
    IF p.curr_token.type = "Int" THEN Some(ExprLiteral(p.curr_token.lit)) ELSE None

\* Parser::parse_int_expression
ParseIntExpression(p) == ParseInt(p)

\* Parser::parse_expression
ParseExpression(p) ==
    CASE p.curr_token.type = "Ident" -> ParseIdentExpression(p)
      [] p.curr_token.type = "Int" -> ParseIntExpression(p)
      [] OTHER -> None

\* what parse_statement and parse_let_statement hand back: the parser after
\* the call, the Option<Statement>, and the line of parser.rs that returned
Result(p, stmt, line) == [p |-> p, stmt |-> stmt, line |-> line]

\* Parser::parse_let_statement
ParseLetStatement(p) ==
    IF p.peek_token.type /= "Ident"
      THEN Result(ErrorNextToken(p, p.peek_token), None, 127)
      ELSE
        The({ The({ The({
            LET name == ParseIdent(p1)
                expr == ParseExpression(p3)
                p4 == IF PeekTokenIs(p3, Tok("Semicolon")) THEN NextToken(p3) ELSE p3
            IN  IF name = None THEN Result(p1, None, 133)
                ELSE IF ~e.ret THEN Result(e.p, None, 137)
                ELSE IF expr = None THEN Result(p3, None, 144)
                ELSE Result(p4, Some(Let(name[1], expr[1])), 151)
            : p3 \in {NextToken(e.p)} })
            : e \in {ExpectPeekToken(p1, Tok("Assign"))} })
            : p1 \in {NextToken(p)} })

\* Parser::parse_statement
ParseStatement(p) ==
    IF p.curr_token.type = "Let"
      THEN ParseLetStatement(p)
      ELSE Result(p, None, 118)

RECURSIVE ParseProgramLoop(_, _)
\* Parser::parse_program, the loop: p is the parser, prog the local `program`
ParseProgramLoop(p, prog) ==
    IF p.aborted \/ CurrTokenIs(p, Eof)
      THEN [p |-> p, program |-> prog]
      ELSE The({ ParseProgramLoop(NextToken(r.p),
                                  IF r.stmt /= None
                                    THEN Append(prog, r.stmt[1])
                                    ELSE prog)
                 : r \in {ParseStatement(p)} })

\* Parser::parse_program
ParseProgram(p) == ParseProgramLoop(p, <<>>)

\* Parser::get_errors: a clone of the list
GetErrors(p) == p.errors

-----------------------------------------------------------------------------
(* Inputs of Spec: the text is written from these pieces.  A piece of kind *)
(* "let" is a well-formed let statement (stmt is the statement it states), *)
(* one of kind "nosemi" is a well-formed let statement without its         *)
(* semicolon, one of kind "bad" is a let statement without its identifier  *)
(* or without its `=` (got is the token found in that place); the others   *)
(* are of kind "other".                                                    *)

Chunks ==
    << \* "let x = 5;\n"
       [text |-> <<108, 101, 116, 32, 120, 32, 61, 32, 53, 59, 10>>,
        kind |-> "let", got |-> <<>>,
        stmt |-> <<Let(Ident(<<120>>), ExprLiteral(<<5>>))>>],
       \* "let y = 10;"
       [text |-> <<108, 101, 116, 32, 121, 32, 61, 32, 49, 48, 59>>,
        kind |-> "let", got |-> <<>>,
        stmt |-> <<Let(Ident(<<121>>), ExprLiteral(<<1, 0>>))>>],
       \* "let z = x;"
       [text |-> <<108, 101, 116, 32, 122, 32, 61, 32, 120, 59>>,
        kind |-> "let", got |-> <<>>,
        stmt |-> <<Let(Ident(<<122>>), ExprIdent(<<120>>))>>],
       \* "let x = 007;"
       [text |-> <<108, 101, 116, 32, 120, 32, 61, 32, 48, 48, 55, 59>>,
        kind |-> "let", got |-> <<>>,
        stmt |-> <<Let(Ident(<<120>>), ExprLiteral(<<7>>))>>],
       \* "let m = 9223372036854775807;"
       [text |-> <<108, 101, 116, 32, 109, 32, 61, 32, 57, 50, 50, 51, 51, 55, 50, 48, 51, 54, 56, 53, 52, 55, 55, 53, 56, 48, 55, 59>>,
        kind |-> "let", got |-> <<>>,
        stmt |-> <<Let(Ident(<<109>>), ExprLiteral(<<9, 2, 2, 3, 3, 7, 2, 0, 3, 6, 8, 5, 4, 7, 7, 5, 8, 0, 7>>))>>],
       \* "let x 5;"
       [text |-> <<108, 101, 116, 32, 120, 32, 53, 59>>,
        kind |-> "bad", got |-> <<TokInt(<<5>>)>>,
        stmt |-> <<>>],
       \* "let = 10;"
       [text |-> <<108, 101, 116, 32, 61, 32, 49, 48, 59>>,
        kind |-> "bad", got |-> <<Tok("Assign")>>,
        stmt |-> <<>>],
       \* "let 838383;"
       [text |-> <<108, 101, 116, 32, 56, 51, 56, 51, 56, 51, 59>>,
        kind |-> "bad", got |-> <<TokInt(<<8, 3, 8, 3, 8, 3>>)>>,
        stmt |-> <<>>],
       \* "5;"
       [text |-> <<53, 59>>,
        kind |-> "other", got |-> <<>>,
        stmt |-> <<>>],
       \* "let x = ;"
       [text |-> <<108, 101, 116, 32, 120, 32, 61, 32, 59>>,
        kind |-> "other", got |-> <<>>,
        stmt |-> <<>>],
       \* "let "
       [text |-> <<108, 101, 116, 32>>,
        kind |-> "other", got |-> <<>>,
        stmt |-> <<>>],
       \* "let x = 9223372036854775808;"
       [text |-> <<108, 101, 116, 32, 120, 32, 61, 32, 57, 50, 50, 51, 51, 55, 50, 48, 51, 54, 56, 53, 52, 55, 55, 53, 56, 48, 56, 59>>,
        kind |-> "other", got |-> <<>>,
        stmt |-> <<>>],
       \* "let y = 10 "
       [text |-> <<108, 101, 116, 32, 121, 32, 61, 32, 49, 48, 32>>,
        kind |-> "nosemi", got |-> <<>>,
        stmt |-> <<Let(Ident(<<121>>), ExprLiteral(<<1, 0>>))>>],
       \* ";"
       [text |-> <<59>>,
        kind |-> "other", got |-> <<>>,
        stmt |-> <<>>],
       \* "x "
       [text |-> <<120, 32>>,
        kind |-> "other", got |-> <<>>,
        stmt |-> <<>>],
       \* "= "
       [text |-> <<61, 32>>,
        kind |-> "other", got |-> <<>>,
        stmt |-> <<>>],
       \* "let z = x "
       [text |-> <<108, 101, 116, 32, 122, 32, 61, 32, 120, 32>>,
        kind |-> "nosemi", got |-> <<>>,
        stmt |-> <<Let(Ident(<<122>>), ExprIdent(<<120>>))>>],
       \* "let x;"
       [text |-> <<108, 101, 116, 32, 120, 59>>,
        kind |-> "bad", got |-> <<Tok("Semicolon")>>,
        stmt |-> <<>>] >>

ChunkIds == 1..Len(Chunks)

Render(ids) == Concat([i \in 1..Len(ids) |-> Chunks[ids[i]].text])

-----------------------------------------------------------------------------
(* LexSpec.                                                                *)

\* `last` before any parse_statement call
NoCall == [op |-> "none", tok |-> Eof, peek |-> Eof, line |-> 0,
           some |-> FALSE, list |-> <<>>, errors |-> <<>>,
           lexer |-> Lexer(0, 0, 0), recovering |-> FALSE]

\* the state LexSpec starts in: a lexer fresh from Lexer::new, no parser
LexInit ==
    /\ src \in SeqsUpTo(LexWords, MaxLexWords)
    /\ input = Concat(src)
    /\ position = LexerNew.position
    /\ read_position = LexerNew.read_position
    /\ ch = LexerNew.ch
    /\ curr_token = Eof
    /\ peek_token = Eof
    /\ errors = <<>>
    /\ program = <<>>
    /\ pc = "lex"
    /\ calls = 0
    /\ out = <<>>
    /\ pre = LexerNew
    /\ last = NoCall
    /\ recovering = FALSE
    /\ dispatched = <<>>

\* the lexer the variables hold
TheLexer == Lexer(position, read_position, ch)

\* a call of lexer.next() that returns a token (main.rs: `let next = lexer.next()`)
NextReturns ==
    /\ pc = "lex"
    /\ calls < Len(input) + MaxExtraCalls
    /\ \E r \in {LexNext(TheLexer)} :
           /\ r.ok
           /\ position' = r.lexer.position
           /\ read_position' = r.lexer.read_position
           /\ ch' = r.lexer.ch
           /\ out' = Append(out, r.tok)
    /\ calls' = calls + 1
    /\ pre' = TheLexer
    /\ UNCHANGED <<input, src, dispatched, parservars, pc, last, recovering>>

\* a call of lexer.next() that panics: the process ends there
NextPanics ==
    /\ pc = "lex"
    /\ calls < Len(input) + MaxExtraCalls
    /\ ~LexNext(TheLexer).ok
    /\ pc' = "abort"
    /\ calls' = calls + 1
    /\ pre' = TheLexer
    /\ UNCHANGED <<input, src, dispatched, lexvars, parservars, out, last, recovering>>

LexStep == NextReturns \/ NextPanics

LexSpec == LexInit /\ [][LexStep]_vars

-----------------------------------------------------------------------------
(* Spec: Parser::new(Lexer::new(input)) and then parse_program().          *)

\* the state after Lexer::new(input) and the struct literal of Parser::new
Init ==
    /\ src \in SeqsUpTo(ChunkIds, MaxChunks)
    /\ input = Render(src)
    /\ position = LexerNew.position
    /\ read_position = LexerNew.read_position
    /\ ch = LexerNew.ch
    /\ curr_token = ParserFields(LexerNew).curr_token
    /\ peek_token = ParserFields(LexerNew).peek_token
    /\ errors = ParserFields(LexerNew).errors
    /\ program = <<>>
    /\ pc = "new"
    /\ calls = 0
    /\ out = <<>>
    /\ pre = LexerNew
    /\ last = NoCall
    /\ recovering = FALSE
    /\ dispatched = <<>>

\* the parser the variables hold
TheParser ==
    [lexer |-> TheLexer, curr_token |-> curr_token, peek_token |-> peek_token,
     errors |-> errors, aborted |-> FALSE]

\* the variables take the fields of parser p, or the process ends in a panic
Becomes(p, to) ==
    IF p.aborted
      THEN /\ pc' = "abort"
           /\ UNCHANGED <<lexvars, curr_token, peek_token, errors>>
      ELSE /\ pc' = to
           /\ position' = p.lexer.position
           /\ read_position' = p.lexer.read_position
           /\ ch' = p.lexer.ch
           /\ curr_token' = p.curr_token
           /\ peek_token' = p.peek_token
           /\ errors' = p.errors

\* the two next_token() calls of Parser::new, then parse_program's
\* `let mut program = vec![]`
New ==
    /\ pc = "new"
    /\ \E p \in {ParserNew(TheLexer)} : Becomes(p, "loop")
    /\ program' = <<>>
    /\ pre' = TheLexer
    /\ UNCHANGED <<input, src, dispatched, calls, out, last, recovering>>

\* parse_program, the loop's body up to the push: `match self.parse_statement()`
Statement ==
    /\ pc = "loop"
    /\ ~CurrTokenIs(TheParser, Eof)
    /\ \E r \in {ParseStatement(TheParser)} :
           /\ \E p \in {r.p} : Becomes(p, "advance")
           /\ IF r.p.aborted
                THEN UNCHANGED <<program, last, recovering>>
                ELSE /\ program' = IF r.stmt /= None
                                     THEN Append(program, r.stmt[1])
                                     ELSE program
                     /\ last' = [op |-> "parse_statement",
                                 tok |-> curr_token, peek |-> peek_token,
                                 line |-> r.line,
                                 some |-> r.stmt /= None, list |-> <<>>,
                                 errors |-> errors,
                                 lexer |-> TheLexer, recovering |-> recovering]
                     /\ recovering' =
                          IF curr_token.type /= "Let" THEN recovering
                          ELSE /\ r.stmt = None
                               /\ r.p.curr_token.type \notin {"Semicolon", "Eof"}
    /\ dispatched' = IF curr_token = Tok("Let")
                       THEN Append(dispatched, read_position)
                       ELSE dispatched
    /\ pre' = TheLexer
    /\ UNCHANGED <<input, src, calls, out>>

\* parse_program, the loop's `self.next_token()`
Advance ==
    /\ pc = "advance"
    /\ \E p \in {NextToken(TheParser)} :
           /\ Becomes(p, "loop")
           /\ recovering' = (recovering /\ ~p.aborted
                             /\ p.curr_token.type \notin {"Semicolon", "Eof"})
    /\ pre' = TheLexer
    /\ UNCHANGED <<input, src, dispatched, program, calls, out, last>>

\* parse_program, the loop's exit and the return of `program`
Return ==
    /\ pc = "loop"
    /\ CurrTokenIs(TheParser, Eof)
    /\ pc' = "done"
    /\ UNCHANGED <<input, src, dispatched, lexvars, parservars, calls, out, pre, last,
                   recovering>>

Next == New \/ Statement \/ Advance \/ Return

Spec == Init /\ [][Next]_vars

-----------------------------------------------------------------------------
(* Properties of Spec.                                                     *)

\* every piece of the input is of kind k
AllOfKind(k) == \A i \in 1..Len(src) : Chunks[src[i]].kind = k

\* the statements the pieces of the input state, in source order
StatedProgram == [i \in 1..Len(src) |-> Chunks[src[i]].stmt[1]]

(* C1: for an input that is a sequence of n >= 0 well-formed let           *)
(* statements `let <identifier> = <integer literal or identifier>;` (the   *)
(* literal within i64), parse_program returns, and it returns exactly the  *)
(* n Let statements the input states, in source order, each with the name  *)
(* and the value of its statement, and the error list is empty.            *)
C1_WellFormedLets ==
    AllOfKind("let") =>
        /\ pc /= "abort"
        /\ pc = "done" => (program = StatedProgram /\ errors = <<>>)

\* C1's case: parse_program has returned on two different well-formed lets
C1_Witness ==
    /\ pc = "done"
    /\ AllOfKind("let")
    /\ Len(src) >= 2
    /\ src[1] /= src[2]
    /\ Len(program) = Len(src)

(* C2: for an input that is a sequence of n let statements, each without   *)
(* its identifier or without its `=`, parse_program returns with exactly n *)
(* ParseErrors, the i-th naming the token found in the i-th statement, and *)
(* with a Program that holds no statement.                                 *)
C2_MalformedLets ==
    AllOfKind("bad") =>
        /\ pc /= "abort"
        /\ pc = "done" =>
              /\ Len(errors) = Len(src)
              /\ \A i \in 1..Len(src) :
                    /\ errors[i].kind = "UnexpectedToken"
                    /\ errors[i].msg.got = Chunks[src[i]].got[1]
              /\ program = <<>>

\* C2's case: parse_program has returned on two different malformed lets
C2_Witness ==
    /\ pc = "done"
    /\ AllOfKind("bad")
    /\ Len(src) >= 2
    /\ src[1] /= src[2]
    /\ Len(errors) = Len(src)

(* C3: after a let statement failed, no token before the next semicolon    *)
(* (or the end-marker) is taken as the start of a let statement: the call  *)
(* of parse_statement just made did not enter parse_let_statement while    *)
(* the parser was still short of that semicolon.                           *)
C3_SkipsToSemicolon ==
    pc = "advance" => ~(last.recovering /\ last.tok.type = "Let")

(* C4: a call of parse_statement on a token other than `let` yields no     *)
(* statement and appends one (unsupported-statement) ParseError.           *)
C4_NonLetReported ==
    (pc = "advance" /\ last.tok.type /= "Let") =>
        /\ ~last.some
        /\ Len(errors) = Len(last.errors) + 1

(* C5: a let statement whose expression is neither an identifier nor an    *)
(* integer literal (parse_expression returned None, line 144) yields no    *)
(* Let node and adds exactly one ParseError.                               *)
C5_BadExpressionReported ==
    (pc = "advance" /\ last.line = 144) =>
        /\ ~last.some
        /\ Len(errors) = Len(last.errors) + 1

(* C6: parse_program terminates by returning: the run stops only once      *)
(* parse_program has returned; every iteration of the loop has pulled at   *)
(* least one token from the lexer; and on return the lexer's stream is at  *)
(* its end and the current token is the end-marker.                        *)
C6_ParseProgramTerminates ==
    /\ pc = "done" \/ ENABLED Next
    /\ (pc = "loop" /\ last /= NoCall) =>
          read_position > last.lexer.read_position
    /\ pc = "done" => (curr_token = Eof /\ position >= Len(input))

-----------------------------------------------------------------------------
(* Properties of LexSpec.                                                  *)

(* C7: every call of Lexer::next returns a token; none aborts the process. *)
C7_NextAlwaysReturns == pc /= "abort"

(* C8: once a call of next() has returned Eof, every later call returns    *)
(* Eof.                                                                    *)
C8_EofAbsorbing ==
    \A i, j \in 1..Len(out) : (i < j /\ out[i] = Eof) => out[j] = Eof

\* the last call of next() was made with the cursor at or past the end
CalledExhausted == calls > 0 /\ pre.position >= Len(input)

(* C9: a call of next() made with the cursor at or past the end of the     *)
(* input returns, and returns Eof.                                         *)
C9_ExhaustedYieldsEof ==
    CalledExhausted => (pc /= "abort" /\ Len(out) = calls /\ out[calls] = Eof)

\* C9's case: on a non-empty input, a second call past the end returned Eof
C9_Witness ==
    /\ CalledExhausted
    /\ Len(input) > 0
    /\ pre.position > Len(input)
    /\ out[calls] = Eof

(* C10: a call of next() on an exhausted lexer leaves position and         *)
(* read_position as they were.                                             *)
C10_ExhaustedDoesNotAdvance ==
    CalledExhausted =>
        (position = pre.position /\ read_position = pre.read_position)

\* the last call of next() returned a token (it did not panic)
CallReturned == calls > 0 /\ Len(out) = calls

\* the lexer of the last call once its skip_whitespace was done
Skipped == SkipWhitespace(pre)

\* the input byte at index i (from 0), 0 past the end
ByteAt(i) == IF i < Len(input) THEN input[i + 1] ELSE 0

\* the cursor stands on index i, with the byte there cached
CursorAt(i) == position = i /\ read_position = i + 1 /\ ch = ByteAt(i)

NonEofCount(toks) == Cardinality({i \in 1..Len(toks) : toks[i] /= Eof})

(* C11: no call of next() moves read_position back; a call that returns a *)
(* token other than Eof moves it strictly forward; and the tokens other    *)
(* than Eof returned so far number at most the input's length in bytes.    *)
C11_CursorMovesForward ==
    /\ read_position >= pre.read_position
    /\ (CallReturned /\ out[calls] /= Eof) =>
          read_position > pre.read_position
    /\ NonEofCount(out) <= Len(input)

\* C11's case: a second non-Eof token, one token per byte of the input
C11_Witness ==
    /\ CallReturned
    /\ calls >= 2
    /\ out[calls] /= Eof
    /\ NonEofCount(out) = Len(input)

\* the bytes next() has an arm for, whitespace and the sentinel apart
Recognised(c) ==
    \/ c \in {61, 59, 40, 41, 44, 43, 45, 47, 42, 60, 62, 33, 123, 125}
    \/ c \in 97..122 \/ c \in 65..90 \/ c = 95
    \/ c \in 48..57

Unrecognised(c) == ~Recognised(c) /\ c /= 0 /\ c \notin {32, 10, 9, 13}

(* C12: when the byte under the cursor after skip_whitespace is none of    *)
(* the bytes next() names, the call returns Illegal and leaves the cursor  *)
(* on the byte right after it.                                             *)
C12_IllegalAdvancesOne ==
    (calls > 0 /\ Unrecognised(Skipped.ch)) =>
        /\ CallReturned
        /\ out[calls] = Tok("Illegal")
        /\ CursorAt(Skipped.position + 1)

\* C12's case: Illegal was returned and a byte of the input follows it
C12_Witness ==
    /\ CallReturned
    /\ Unrecognised(Skipped.ch)
    /\ out[calls] = Tok("Illegal")
    /\ position < Len(input)

\* the call returned token t and consumed n bytes from where it started
Lexed(t, n) ==
    CallReturned /\ out[calls] = Tok(t) /\ CursorAt(Skipped.position + n)

(* C13: on `=`, next() returns Eq and consumes two bytes when the byte     *)
(* after it is `=`, and Assign and one byte otherwise; on `!`, NotEq and   *)
(* two bytes when the byte after it is `=`, and Bang and one byte          *)
(* otherwise.                                                              *)
C13_TwoCharOperators ==
    calls > 0 =>
        /\ Skipped.ch = 61 =>
              IF ByteAt(Skipped.position + 1) = 61
                THEN Lexed("Eq", 2) ELSE Lexed("Assign", 1)
        /\ Skipped.ch = 33 =>
              IF ByteAt(Skipped.position + 1) = 61
                THEN Lexed("NotEq", 2) ELSE Lexed("Bang", 1)

\* C13's case: `=!=` was lexed as Assign, NotEq
C13_Witness ==
    /\ CallReturned
    /\ calls >= 2
    /\ out[calls - 1] = Tok("Assign")
    /\ out[calls] = Tok("NotEq")

\* the input is written with the eight characters = + ( ) { } , ; only
EightOnly ==
    \A i \in 1..Len(input) : input[i] \in {61, 43, 40, 41, 123, 125, 44, 59}

\* the token of each of the eight characters
PunctToken(c) ==
    CASE c = 61 -> Tok("Assign")
      [] c = 43 -> Tok("Plus")
      [] c = 40 -> Tok("Lparen")
      [] c = 41 -> Tok("Rparen")
      [] c = 123 -> Tok("Lbrace")
      [] c = 125 -> Tok("Rbrace")
      [] c = 44 -> Tok("Comma")
      [] c = 59 -> Tok("Semicolon")

\* the k-th call returned the token of the k-th character, and Eof after them
OneTokenPerChar ==
    /\ pc /= "abort"
    /\ \A k \in 1..Len(out) :
          out[k] = IF k <= Len(input) THEN PunctToken(input[k]) ELSE Eof

\* no `=` of the input is followed at once by another `=`
NoDoubleAssign ==
    \A i \in 1..(Len(input) - 1) : ~(input[i] = 61 /\ input[i + 1] = 61)

(* C14 as stated: for every input written with the eight characters only,  *)
(* in any order and with any repetition, the lexer yields one token per    *)
(* character, the token of that character, in input order, and then Eof.   *)
C14_OneTokenPerChar == EightOnly => OneTokenPerChar

(* C14 as amended: the same, for the inputs in which no `=` is followed at *)
(* once by another `=` (such a pair is the one token Eq).                  *)
C14_OneTokenPerCharNoEq == (EightOnly /\ NoDoubleAssign) => OneTokenPerChar

\* C14's case: `=+(){},;` was lexed to its end
C14_Witness ==
    /\ input = <<61, 43, 40, 41, 123, 125, 44, 59>>
    /\ Len(out) = 9
    /\ out[9] = Eof

\* a letter or an underscore, as the claim names them
LetterByte(c) == c \in 97..122 \/ c \in 65..90 \/ c = 95

\* the end of the maximal run of letters and underscores that starts at i
RunEnd(i) ==
    CHOOSE e \in i..Len(input) :
        /\ \A j \in i..(e - 1) : LetterByte(ByteAt(j))
        /\ ~LetterByte(ByteAt(e))

\* the token of a run of letters: a keyword, or Ident with the run's text
WordToken(text) ==
    CASE text = <<102, 110>> -> Tok("Func")
      [] text = <<108, 101, 116>> -> Tok("Let")
      [] text = <<105, 102>> -> Tok("If")
      [] text = <<101, 108, 115, 101>> -> Tok("Else")
      [] text = <<116, 114, 117, 101>> -> Tok("True")
      [] text = <<102, 97, 108, 115, 101>> -> Tok("False")
      [] text = <<114, 101, 116, 117, 114, 110>> -> Tok("Return")
      [] OTHER -> [type |-> "Ident", lit |-> text]

(* C15: on a letter or underscore, next() consumes the maximal run of      *)
(* letters and underscores (it stops before any other byte, a digit        *)
(* included), returns the keyword when the run is exactly one of fn, let,  *)
(* if, else, true, false, return and otherwise Ident with the run's text,  *)
(* and leaves the cursor on the first byte after the run.                  *)
C15_IdentifierRun ==
    (calls > 0 /\ LetterByte(Skipped.ch)) =>
        /\ CallReturned
        /\ out[calls] =
              WordToken(SubSeq(input, Skipped.position + 1,
                               RunEnd(Skipped.position)))
        /\ CursorAt(RunEnd(Skipped.position))

\* C15's case: an Ident that holds `let` in a longer run, stopped by a digit
C15_Witness ==
    /\ CallReturned
    /\ out[calls].type = "Ident"
    /\ Len(out[calls].lit) > 3
    /\ ch \in 48..57

-----------------------------------------------------------------------------
(* Properties of Spec: the lookahead window across one parse_statement.    *)

\* a lookahead window: the two tokens and the lexer they were pulled from
Window(c, p, l) == [curr |-> c, peek |-> p, lexer |-> l]

\* the window the variables hold
TheWindow == Window(curr_token, peek_token, TheLexer)

\* the window as the last parse_statement call found it
WindowBefore == Window(last.tok, last.peek, last.lexer)

RECURSIVE Shifted(_, _)
\* window w moved on by n tokens of the lexer's stream
Shifted(w, n) ==
    IF n = 0 THEN w
    ELSE The({ Shifted(Window(w.peek, r.tok, r.lexer), n - 1)
               : r \in {LexNext(w.lexer)} })

\* the last parse_statement call was a let statement, and it returned
LetReturned == pc = "advance" /\ last.tok = Tok("Let")

\* the call appended exactly one ParseError to the list it found
OneErrorAppended ==
    /\ Len(errors) = Len(last.errors) + 1
    /\ SubSeq(errors, 1, Len(last.errors)) = last.errors

(* C17: in a let statement, a token other than an identifier after `let`   *)
(* leaves the window and the lexer as they were, appends exactly one       *)
(* ParseError and yields no statement; an identifier moves the window on   *)
(* by exactly one token with no error, and then a token other than `=`     *)
(* leaves the window and the lexer where that one move put them, appends   *)
(* exactly one ParseError and yields no statement, while `=` moves the     *)
(* window on by exactly one more token with no error.                      *)
C17_ExpectationOutcomes ==
    LetReturned =>
        IF last.peek.type /= "Ident"
          THEN /\ last.line = 127
               /\ TheWindow = WindowBefore
               /\ OneErrorAppended
               /\ ~last.some
        ELSE IF Shifted(WindowBefore, 1).peek /= Tok("Assign")
          THEN /\ last.line = 137
               /\ TheWindow = Shifted(WindowBefore, 1)
               /\ OneErrorAppended
               /\ ~last.some
        ELSE /\ last.line \in {144, 151}
             /\ last.line = 144 =>
                    (TheWindow = Shifted(WindowBefore, 3) /\ errors = last.errors)
             /\ last.line = 151 =>
                    /\ TheWindow \in {Shifted(WindowBefore, 3),
                                      Shifted(WindowBefore, 4)}
                    /\ errors = last.errors

\* C17's case: the identifier matched and the `=` did not, after an earlier
\* statement had already left an error
C17_Witness ==
    /\ LetReturned
    /\ last.line = 137
    /\ TheWindow = Shifted(WindowBefore, 1)
    /\ Len(errors) = 2

\* every piece of the input is a well-formed let, with or without semicolon
AllWellFormed ==
    \A i \in 1..Len(src) : Chunks[src[i]].kind \in {"let", "nosemi"}

\* the call found `let <identifier> = <integer literal or identifier>`
WellFormedLetAhead ==
    /\ last.peek.type = "Ident"
    /\ Shifted(WindowBefore, 1).peek = Tok("Assign")
    /\ Shifted(WindowBefore, 2).peek.type \in {"Ident", "Int"}

(* C18: a well-formed `let <identifier> = <expr>` yields its Let statement *)
(* and no error with or without a semicolon after it: when a semicolon     *)
(* follows, parse_let_statement returns with that semicolon as the current *)
(* token; when none follows it returns on the expression's token with      *)
(* nothing after it consumed; and an input of such statements, a statement *)
(* following one without semicolon directly, parses to exactly the stated  *)
(* statements.                                                             *)
C18_SemicolonOptional ==
    /\ (LetReturned /\ WellFormedLetAhead) =>
          /\ last.line = 151
          /\ last.some
          /\ errors = last.errors
          /\ IF Shifted(WindowBefore, 3).peek = Tok("Semicolon")
               THEN /\ TheWindow = Shifted(WindowBefore, 4)
                    /\ curr_token = Tok("Semicolon")
               ELSE /\ TheWindow = Shifted(WindowBefore, 3)
                    /\ curr_token.type \in {"Ident", "Int"}
    /\ (AllWellFormed /\ pc = "done") =>
          (program = StatedProgram /\ errors = <<>>)

\* C18's case: `let y = 10 let x = 5;` parsed to two statements
C18_Witness ==
    /\ pc = "done"
    /\ src = <<13, 1>>
    /\ Len(program) = 2

-----------------------------------------------------------------------------
(* ClientSpec.  A client builds a Lexer and a Parser and then calls the    *)
(* parser's public methods in any order; each action is one whole call.    *)

\* the pieces the client's input is written from: `let x = 5;`, `let x 5;`,
\* `let = 10;`, `let x = ;`, `let x = 9223372036854775808;`
ClientChunkIds == {1, 6, 7, 10, 12}

\* the token a client hands to expect_peek_token
ExpectToks == {Tok("Assign")}

\* the state after Lexer::new and the struct literal of Parser::new
ClientInit ==
    /\ src \in SeqsUpTo(ClientChunkIds, MaxClientChunks)
    /\ input = Render(src)
    /\ position = LexerNew.position
    /\ read_position = LexerNew.read_position
    /\ ch = LexerNew.ch
    /\ curr_token = ParserFields(LexerNew).curr_token
    /\ peek_token = ParserFields(LexerNew).peek_token
    /\ errors = ParserFields(LexerNew).errors
    /\ program = <<>>
    /\ pc = "fresh"
    /\ calls = 0
    /\ out = <<>>
    /\ pre = LexerNew
    /\ last = NoCall
    /\ recovering = FALSE
    /\ dispatched = <<>>

\* the client may call a method that pulls tokens
MayPull == pc = "client" /\ read_position <= Len(input) + MaxClientExtra

\* the client may call a method that can push an error
MayPush == MayPull /\ Len(errors) < MaxClientErrors

\* method op was called and left parser p; it returned `some` from `line`,
\* or the list of errors `list`
Called(op, p, some, line, list) ==
    /\ Becomes(p, "client")
    /\ last' = IF p.aborted THEN last
               ELSE [op |-> op, tok |-> curr_token, peek |-> peek_token,
                     line |-> line, some |-> some, list |-> list,
                     errors |-> errors, lexer |-> TheLexer,
                     recovering |-> FALSE]
    /\ pre' = TheLexer
    /\ UNCHANGED <<input, src, dispatched, calls, out, recovering>>

\* Parser::new
ClientNew ==
    /\ pc = "fresh"
    /\ \E p \in {ParserNew(TheLexer)} : Called("new", p, FALSE, 0, <<>>)
    /\ UNCHANGED program

\* a call of next_token
ClientNextToken ==
    /\ MayPull
    /\ \E p \in {NextToken(TheParser)} : Called("next_token", p, FALSE, 0, <<>>)
    /\ UNCHANGED program

\* a call of expect_peek_token
ClientExpectPeekToken ==
    /\ MayPush
    /\ \E tok \in ExpectToks :
         \E e \in {ExpectPeekToken(TheParser, tok)} :
             Called("expect_peek_token", e.p, e.ret, 0, <<>>)
    /\ UNCHANGED program

\* a call of parse_statement
ClientParseStatement ==
    /\ MayPush
    /\ \E r \in {ParseStatement(TheParser)} :
           Called("parse_statement", r.p, r.stmt /= None, r.line, <<>>)
    /\ UNCHANGED program

\* a call of parse_let_statement
ClientParseLetStatement ==
    /\ MayPush
    /\ \E r \in {ParseLetStatement(TheParser)} :
           Called("parse_let_statement", r.p, r.stmt /= None, r.line, <<>>)
    /\ UNCHANGED program

\* a call of parse_program
ClientParseProgram ==
    /\ MayPush
    /\ \E r \in {ParseProgram(TheParser)} :
           /\ Called("parse_program", r.p, TRUE, 0, <<>>)
           /\ program' = IF r.p.aborted THEN program ELSE r.program

\* a call of get_errors
ClientGetErrors ==
    /\ pc = "client"
    /\ Called("get_errors", TheParser, FALSE, 0, GetErrors(TheParser))
    /\ UNCHANGED program

ClientNext ==
    \/ ClientNew
    \/ ClientNextToken
    \/ ClientExpectPeekToken
    \/ ClientParseStatement
    \/ ClientParseLetStatement
    \/ ClientParseProgram
    \/ ClientGetErrors

ClientSpec == ClientInit /\ [][ClientNext]_vars

-----------------------------------------------------------------------------
(* Properties of ClientSpec.                                               *)

\* the first two pulls from a fresh lexer
FirstPull == LexNext(LexerNew)
SecondPull == LexNext(FirstPull.lexer)

\* the window on the first two tokens of the lexer's stream
PrimedWindow == Window(FirstPull.tok, SecondPull.tok, SecondPull.lexer)

RECURSIVE CaughtUp(_)
\* window w moved along the stream, one token at a time, up to where the
\* lexer of the variables stands
CaughtUp(w) ==
    IF w.lexer.read_position >= read_position
      THEN w
      ELSE The({ IF r.ok THEN CaughtUp(Window(w.peek, r.tok, r.lexer)) ELSE w
                 : r \in {LexNext(w.lexer)} })

(* C19: Parser::new leaves the first token of the lexer's stream in        *)
(* curr_token and the second in peek_token; every call of a parser method  *)
(* leaves the window it found moved along that stream one token at a time  *)
(* as far as the lexer was read, so peek_token stays the token right after *)
(* curr_token; and a next_token call moves it by exactly one token.        *)
C19_WindowConsistent ==
    pc = "client" =>
        /\ TheWindow = CaughtUp(WindowBefore)
        /\ last.op = "new" => TheWindow = PrimedWindow
        /\ last.op = "next_token" => TheWindow = Shifted(WindowBefore, 1)

\* C19's case: a next_token call after a call that had pushed an error, with
\* tokens still ahead
C19_Witness ==
    /\ pc = "client"
    /\ last.op = "next_token"
    /\ Len(errors) >= 1
    /\ TheWindow /= PrimedWindow
    /\ peek_token /= Eof

\* sequence s is the beginning of sequence t
IsPrefix(s, t) == Len(s) <= Len(t) /\ SubSeq(t, 1, Len(s)) = s

(* C20: the error list is empty at construction, and every call of a       *)
(* parser method leaves the list it found as the beginning of the list it  *)
(* leaves (nothing changed, removed or reordered, get_errors included); so *)
(* parse_program on let statements that each lack the identifier or the    *)
(* `=` leaves the errors in the order of their tokens in the source.       *)
C20_ErrorsAppendOnly ==
    /\ pc = "fresh" => errors = <<>>
    /\ pc = "client" =>
          /\ last.op = "new" => errors = <<>>
          /\ IsPrefix(last.errors, errors)
          /\ last.op = "get_errors" => (last.list = errors /\ errors = last.errors)
          /\ (/\ last.op = "parse_program"
              /\ WindowBefore = PrimedWindow
              /\ last.errors = <<>>
              /\ AllOfKind("bad")) =>
                 /\ Len(errors) = Len(src)
                 /\ \A i \in 1..Len(src) :
                        errors[i].msg.got = Chunks[src[i]].got[1]

\* C20's case: a call pushed an error onto a list that held one already
C20_Witness ==
    /\ pc = "client"
    /\ Len(last.errors) >= 1
    /\ Len(errors) > Len(last.errors)
    /\ last.op /= "parse_program"

-----------------------------------------------------------------------------
(* Properties of Spec: statements, errors and the `let` tokens.            *)

InSeq(x, s) == \E j \in 1..Len(s) : s[j] = x

RECURSIVE IsSubseq(_, _)
\* the elements of s occur in t, in the order of s
IsSubseq(s, t) ==
    IF s = <<>> THEN TRUE
    ELSE IF t = <<>> THEN FALSE
    ELSE IF Head(s) = Head(t) THEN IsSubseq(Tail(s), Tail(t))
    ELSE IsSubseq(s, Tail(t))

\* the text of piece id ends with a semicolon (whitespace apart)
EndsWithSemicolon(id) ==
    \E n \in 1..Len(Chunks[id].text) :
        /\ Chunks[id].text[n] = 59
        /\ \A m \in (n + 1)..Len(Chunks[id].text) :
               IsWhitespace(Chunks[id].text[m])

RECURSIVE BoundaryStatements(_)
\* the statements of the well-formed pieces among the first n that open the
\* input or come right after a piece that ends with a semicolon, in order
BoundaryStatements(n) ==
    IF n = 0 THEN <<>>
    ELSE IF /\ Chunks[src[n]].kind \in {"let", "nosemi"}
            /\ n = 1 \/ EndsWithSemicolon(src[n - 1])
      THEN Append(BoundaryStatements(n - 1), Chunks[src[n]].stmt[1])
    ELSE BoundaryStatements(n - 1)

RECURSIVE NoBoundaryLetFrom(_)
\* from window w up to where the lexer of the variables stands, no token
\* that moves into the window's current place is a `let` right after a
\* semicolon
NoBoundaryLetFrom(w) ==
    IF w.lexer.read_position >= read_position
      THEN TRUE
      ELSE /\ ~(w.curr = Tok("Semicolon") /\ w.peek = Tok("Let"))
           /\ NoBoundaryLetFrom(Shifted(w, 1))

(* C21: in parse_program the first token of the input is the current token *)
(* of the first parse_statement call and each later call has the token     *)
(* right after the one the call before it ended on; a call whose current   *)
(* token is `let` is dispatched to parse_let_statement; and no call, as it *)
(* moves the window on, steps over a `let` that comes right after a        *)
(* semicolon.  So every `let` that opens the input or follows a semicolon  *)
(* is dispatched, and when parse_program returns, the well-formed let      *)
(* statements at such places are in the Program, in source order,          *)
(* whatever stands before that semicolon.                                  *)
C21_BoundaryLetsDispatched ==
    /\ (pc = "loop" /\ pre = LexerNew) => curr_token = LexNext(LexerNew).tok
    /\ (pc = "loop" /\ pre /= LexerNew) => TheLexer = LexNext(pre).lexer
    /\ pc = "advance" =>
          /\ NoBoundaryLetFrom(WindowBefore)
          /\ last.tok = Tok("Let") =>
                /\ last.line /= 118
                /\ dispatched /= <<>>
                /\ dispatched[Len(dispatched)] = last.lexer.read_position
    /\ pc = "done" => IsSubseq(BoundaryStatements(Len(src)), program)

\* C21's case: `let x;let x = ;let x = 5;\n`, two failed statements and then
\* the well-formed one
C21_Witness ==
    /\ pc = "done"
    /\ src = <<18, 10, 1>>
    /\ Len(dispatched) = 3
    /\ program = <<Chunks[1].stmt[1]>>

\* the read_positions in s grow strictly
Increasing(s) == \A i \in 1..(Len(s) - 1) : s[i] < s[i + 1]

(* C22: a parse_let_statement call either returns a Let statement and      *)
(* appends no error, or returns no statement and appends at most one       *)
(* error; and at every point of parse_program the statements in the        *)
(* Program and the errors recorded number together at most the `let`       *)
(* tokens that have been the current token of a parse_statement call, each *)
(* at a place of its own in the input (so at most the `let` tokens         *)
(* consumed so far).                                                       *)
C22_StatementOrError ==
    /\ LetReturned =>
          IF last.some
            THEN errors = last.errors
            ELSE /\ IsPrefix(last.errors, errors)
                 /\ Len(errors) <= Len(last.errors) + 1
    /\ Increasing(dispatched)
    /\ Len(program) + Len(errors) <= Len(dispatched)

\* C22's case: parse_program returned two statements and one error from
\* three `let` tokens
C22_Witness ==
    /\ pc = "done"
    /\ Len(program) = 2
    /\ Len(errors) = 1
    /\ Len(dispatched) = 3

-----------------------------------------------------------------------------
(* Properties of LexSpec: the cursor.                                      *)

(* C23: after Lexer::new and after every call of next(), read_position is  *)
(* position + 1 and ch is the input byte at index position, or 0 when      *)
(* position is not below the input's length; and peek_char returns the     *)
(* byte at index read_position, or 0 past the end.                         *)
C23_CursorInvariant ==
    /\ read_position = position + 1
    /\ ch = IF position < Len(input) THEN input[position + 1] ELSE 0
    /\ PeekChar(TheLexer) =
          IF read_position < Len(input) THEN input[read_position + 1] ELSE 0

\* C23's case: calls beyond the end of a non-empty input have moved the
\* cursor past the input's length
C23_Witness ==
    /\ CallReturned
    /\ Len(input) >= 2
    /\ position > Len(input)
    /\ ch = 0

=============================================================================
